---- MODULE Spec2Model ----
(***************************************************************************)
(* Model of the slicknode GraphQL client (src/src/index.js): the token     *)
(* store kept in a Storage object, the clock read through Date.now(), and  *)
(* the asynchronous fetch / getAuthHeaders / authenticate operations, one  *)
(* step per synchronous stretch of code between two awaits.                *)
(*                                                                         *)
(* JavaScript values.  A value that may be null or undefined is a sequence *)
(* of length at most one: <<>> is null/undefined, <<x>> is the value x.    *)
(* Tokens, keys and header values are strings.  The strings the client     *)
(* writes with String(timestamp) and reads with parseInt are sequences of  *)
(* one-character strings, so that both conversions are computed.  Tokens   *)
(* are non-empty strings.                                                  *)
(***************************************************************************)
EXTENDS Integers, Sequences, FiniteSets, TLC

\* --------------------------------------------------------------- bounds
\* The clock runs from second 1 to second MaxSec, with at most MaxMs
\* milliseconds past a full second.
MaxSec == 2
MaxMs == 1

\* Token pairs the server or the caller can hand out, and the lifetimes
\* (seconds) of the access and of the refresh token they may carry.
TokenIds == {"1", "2"}
Lifetimes == {<<1, 1>>, <<-1, 1>>, <<1, -1>>, <<-1, -1>>, <<0, 0>>}

\* Concurrent fetch calls.
Calls == {"c1"}

\* --------------------------------------------------------------- constants
REFRESH_TOKEN_KEY == ":auth:refreshToken"
REFRESH_TOKEN_EXPIRES_KEY == ":auth:refreshTokenExpires"
ACCESS_TOKEN_KEY == ":auth:accessToken"
ACCESS_TOKEN_EXPIRES_KEY == ":auth:accessTokenExpires"
DEFAULT_NAMESPACE == "slicknode"

Null == <<>>

\* The value undefined, where it is held or returned as a value: the
\* property a response object lacks, stored as it is by MemoryStorage
undefined == "undefined"

\* Boolean(x) of a token that may be null or undefined; tokens are non-empty
Truthy(x) == x # Null /\ x[1] # undefined

\* x || null
OrNull(x) == IF Truthy(x) THEN x ELSE Null

\* An object without own properties: {}
EmptyObject == [k \in {} |-> ""]

\* {...a, ...b}: the properties of both, b's value on a shared key
Spread(a, b) ==
  [k \in DOMAIN a \cup DOMAIN b |-> IF k \in DOMAIN b THEN b[k] ELSE a[k]]

\* -------------------------------------------------- String() and parseInt()
Digits == <<"0", "1", "2", "3", "4", "5", "6", "7", "8", "9">>

DigitChars == {Digits[i] : i \in 1..10}

DigitVal(ch) == (CHOOSE i \in 1..10 : Digits[i] = ch) - 1

RECURSIVE NatToString(_)
NatToString(n) ==
  IF n < 10 THEN <<Digits[n + 1]>>
  ELSE NatToString(n \div 10) \o <<Digits[(n % 10) + 1]>>

\* String(timestamp) of an integer
String(n) == IF n < 0 THEN <<"-">> \o NatToString(0 - n) ELSE NatToString(n)

RECURSIVE ParseDigits(_, _)
ParseDigits(s, acc) ==
  IF s = <<>> \/ Head(s) \notin DigitChars THEN acc
  ELSE ParseDigits(Tail(s), acc * 10 + DigitVal(Head(s)))

\* parseInt(s, 10) of a string that starts with an optional sign and a digit
parseInt(s) ==
  IF Head(s) = "-" THEN 0 - ParseDigits(Tail(s), 0) ELSE ParseDigits(s, 0)

\* ------------------------------------------------------------ token sets
\* AuthTokenSet: the pair of tokens numbered id with the two lifetimes
AuthTokenSet(id, la, lr) ==
  [accessToken |-> "access" \o id, accessTokenLifetime |-> la,
   refreshToken |-> "refresh" \o id, refreshTokenLifetime |-> lr]

TokenSets == {AuthTokenSet(id, l[1], l[2]) : id \in TokenIds, l \in Lifetimes}

VARIABLES
  values,   \* MemoryStorage.values: the keys held by the storage
  now,      \* the value Date.now() returns
  options,  \* ClientOptions: accessToken and headers
  calls,    \* the fetch calls in progress, by call
  auth,     \* the authenticate call in progress
  lastOp,   \* the last operation that wrote the storage
  settled   \* the fetch or authenticate call that settled in the last step

vars == <<values, now, options, calls, auth, lastOp, settled>>

\* ------------------------------------------------------------ MemoryStorage
getItem(vals, keyName) ==
  IF keyName \in DOMAIN vals THEN <<vals[keyName]>> ELSE Null

setItem(vals, keyName, keyValue) ==
  [k \in DOMAIN vals \cup {keyName} |-> IF k = keyName THEN keyValue ELSE vals[k]]

removeItem(vals, keyName) ==
  [k \in DOMAIN vals \ {keyName} |-> vals[k]]

\* ------------------------------------------------------------ token store
\* options.namespace || DEFAULT_NAMESPACE: the default when the options have
\* no namespace, or the empty string as namespace
Namespace(opts) ==
  IF "namespace" \in DOMAIN opts /\ opts.namespace # Null /\ opts.namespace[1] # ""
  THEN opts.namespace[1]
  ELSE DEFAULT_NAMESPACE

\* this.namespace of the client the options were handed to
namespace == Namespace(options)

setAccessToken(vals, token) == setItem(vals, namespace \o ACCESS_TOKEN_KEY, token)

setRefreshToken(vals, token) == setItem(vals, namespace \o REFRESH_TOKEN_KEY, token)

\* if (timestamp) setItem(String(timestamp)) else removeItem
setAccessTokenExpires(vals, timestamp) ==
  IF timestamp # 0
  THEN setItem(vals, namespace \o ACCESS_TOKEN_EXPIRES_KEY, String(timestamp))
  ELSE removeItem(vals, namespace \o ACCESS_TOKEN_EXPIRES_KEY)

setRefreshTokenExpires(vals, timestamp) ==
  setItem(vals, namespace \o REFRESH_TOKEN_EXPIRES_KEY, String(timestamp))

\* expires ? parseInt(expires, 10) : null
getRefreshTokenExpires(vals) ==
  LET expires == getItem(vals, namespace \o REFRESH_TOKEN_EXPIRES_KEY)
  IN  IF expires # Null THEN <<parseInt(expires[1])>> ELSE Null

getAccessTokenExpires(vals) ==
  LET expires == getItem(vals, namespace \o ACCESS_TOKEN_EXPIRES_KEY)
  IN  IF expires # Null THEN <<parseInt(expires[1])>> ELSE Null

\* (x || 0) of a number or null
OrZero(x) == IF x = Null THEN 0 ELSE x[1]

\* the token unless (getRefreshTokenExpires() || 0) < Date.now()
getRefreshToken(vals, t) ==
  IF OrZero(getRefreshTokenExpires(vals)) < t THEN Null
  ELSE getItem(vals, namespace \o REFRESH_TOKEN_KEY)

\* Variant of getAccessToken that takes the token for expired from the very
\* millisecond of its expiry on (<= in place of <)
getAccessToken_ExpiredAtExpiry(vals, t) ==
  IF OrZero(getAccessTokenExpires(vals)) <= t THEN Null
  ELSE OrNull(getItem(vals, namespace \o ACCESS_TOKEN_KEY))

getAccessToken(vals, t) ==
  IF OrZero(getAccessTokenExpires(vals)) < t THEN Null
  ELSE OrNull(getItem(vals, namespace \o ACCESS_TOKEN_KEY))

hasAccessToken(vals, t) == Truthy(getAccessToken(vals, t))

hasRefreshToken(vals, t) == Truthy(getRefreshToken(vals, t))

\* Variant of setAuthTokenSet that adds the lifetimes to the clock as they
\* are, in seconds (no * 1000)
setAuthTokenSet_InSeconds(vals, token, t1, t2) ==
  LET v1 == setAccessToken(vals, token.accessToken)
      v2 == setAccessTokenExpires(v1, token.accessTokenLifetime + t1)
      v3 == setRefreshToken(v2, token.refreshToken)
  IN  setRefreshTokenExpires(v3, token.refreshTokenLifetime + t2)

\* Variant of setAuthTokenSet that stores the lifetimes in milliseconds as the
\* expiry timestamps (no + Date.now())
setAuthTokenSet_Relative(vals, token, t1, t2) ==
  LET v1 == setAccessToken(vals, token.accessToken)
      v2 == setAccessTokenExpires(v1, token.accessTokenLifetime * 1000)
      v3 == setRefreshToken(v2, token.refreshToken)
  IN  setRefreshTokenExpires(v3, token.refreshTokenLifetime * 1000)

\* setAuthTokenSet(token), whose two Date.now() calls return t1 and t2
setAuthTokenSet(vals, token, t1, t2) ==
  LET v1 == setAccessToken(vals, token.accessToken)
      v2 == setAccessTokenExpires(v1, token.accessTokenLifetime * 1000 + t1)
      v3 == setRefreshToken(v2, token.refreshToken)
  IN  setRefreshTokenExpires(v3, token.refreshTokenLifetime * 1000 + t2)

\* Variant of logout that removes the access token and its expiry only
logout_AccessOnly(vals) ==
  LET v1 == removeItem(vals, namespace \o ACCESS_TOKEN_KEY)
  IN  removeItem(v1, namespace \o ACCESS_TOKEN_EXPIRES_KEY)

\* Variant of logout that removes the two tokens and leaves their expiries
logout_KeepExpires(vals) ==
  LET v1 == removeItem(vals, namespace \o REFRESH_TOKEN_KEY)
  IN  removeItem(v1, namespace \o ACCESS_TOKEN_KEY)

\* Variant of logout that empties the storage with clear()
logout_Clear(vals) == [k \in {} |-> ""]

logout(vals) ==
  LET v1 == removeItem(vals, namespace \o REFRESH_TOKEN_KEY)
      v2 == removeItem(v1, namespace \o REFRESH_TOKEN_EXPIRES_KEY)
      v3 == removeItem(v2, namespace \o ACCESS_TOKEN_KEY)
  IN  removeItem(v3, namespace \o ACCESS_TOKEN_EXPIRES_KEY)

\* ------------------------------------------------------------ the wire
REFRESH_TOKEN_MUTATION == "mutation refreshToken"

NODE_QUERY == "query Node"

LOGIN_MUTATION == "mutation LoginMutation"

\* A parsed JSON body: null, or an object whose data is null or an object
\* with the fields refreshAuthToken and tokenSet, and whose errors are a list
Body(data, errors) == <<[data |-> data, errors |-> errors]>>

Data(refreshAuthToken, tokenSet) ==
  <<[refreshAuthToken |-> refreshAuthToken, tokenSet |-> tokenSet]>>

\* What the transport hands back: a parsed body, or a failure (network
\* failure, non-JSON body)
Parsed(body) == [failed |-> FALSE, body |-> body]

TransportFailure == [failed |-> TRUE, body |-> Null]

RefreshResponses ==
  {TransportFailure, Parsed(Null), Parsed(Body(Null, <<>>)),
   Parsed(Body(Null, <<[message |-> "invalid token"]>>)),
   Parsed(Body(Data(Null, Null), <<>>))}
  \cup {Parsed(Body(Data(<<ts>>, Null), <<>>)) : ts \in TokenSets}

\* A data.refreshAuthToken object that lacks its two tokens
IncompleteTokenSet ==
  [accessToken |-> undefined, accessTokenLifetime |-> 1,
   refreshToken |-> undefined, refreshTokenLifetime |-> 1]

\* Refresh responses of a shape other than the expected ones
MalformedRefreshResponses == {Parsed(Body(Data(<<IncompleteTokenSet>>, Null), <<>>))}

LoginResponses ==
  {TransportFailure, Parsed(Null), Parsed(Body(Null, <<>>)),
   Parsed(Body(Data(Null, Null), <<[message |-> "wrong password"]>>))}
  \cup {Parsed(Body(Data(Null, <<ts>>), <<>>)) : ts \in TokenSets}

QueryResponses ==
  {TransportFailure, Parsed(Body(Data(Null, Null), <<>>)),
   Parsed(Body(Null, <<[message |-> "denied"]>>))}

\* Variant of the transport whose failures do not make the await throw
Rejects_Never(response) == FALSE

\* await fetch(...) or await result.json() throws: the transport failed
Rejects(response) == response.failed

\* What the server may answer to the main request of fetch(query)
Responses(query) == IF query = LOGIN_MUTATION THEN LoginResponses ELSE QueryResponses

\* ------------------------------------------------------------ the clock
Seconds(t) == t \div 1000

Millis(t) == t % 1000

\* The values a later Date.now() of the same synchronous stretch can return
Later(t) == {t} \cup (IF Millis(t) < MaxMs THEN {t + 1} ELSE {})

\* Variant of the merge in which the computed headers win over the
\* configured ones
RequestHeaders_ComputedWin(authHeaders) ==
  Spread(Spread(options.headers, authHeaders),
         ("Content-Type" :> "application/json") @@ ("Accept" :> "application/json"))

\* ------------------------------------------------------------ fetch
\* The headers of a JSON request: {...authHeaders, ...(options.headers || {})}
\* with Content-Type and Accept set afterwards
RequestHeaders(authHeaders) ==
  Spread(Spread(authHeaders, options.headers),
         ("Content-Type" :> "application/json") @@ ("Accept" :> "application/json"))

Request(query, variables, authHeaders) ==
  [query |-> query, variables |-> variables, headers |-> RequestHeaders(authHeaders)]

\* Variant of the header computation that emits a header without a token too
AuthHeaders_Always(accessToken) ==
  [Authorization |-> "Bearer " \o (IF accessToken # Null THEN accessToken[1] ELSE "null")]

\* accessToken ? {Authorization: `Bearer ${accessToken}`} : {}
AuthHeaders(accessToken) ==
  IF accessToken # Null THEN [Authorization |-> "Bearer " \o accessToken[1]]
  ELSE EmptyObject

\* Variant of the first read that prefers the stored access token to the
\* static one
InitialAccessToken_StoredFirst(vals, t) ==
  IF getAccessToken(vals, t) # Null THEN getAccessToken(vals, t) ELSE options.accessToken

\* options.accessToken || this.getAccessToken()
InitialAccessToken(vals, t) ==
  IF options.accessToken # Null THEN options.accessToken ELSE getAccessToken(vals, t)

\* Variant of the refresh condition that does not look at the access token
NeedsRefresh_IgnoringAccessToken(accessToken, refreshToken) == Truthy(refreshToken)

\* Variant of the refresh condition that leaves the refresh to a call whose
\* refresh request is in flight
NeedsRefresh_Deduplicated(accessToken, refreshToken) ==
  /\ ~Truthy(accessToken)
  /\ Truthy(refreshToken)
  /\ \A c \in DOMAIN calls : calls[c].pc # "awaitRefresh"

\* !accessToken && refreshToken
NeedsRefresh(accessToken, refreshToken) == ~Truthy(accessToken) /\ Truthy(refreshToken)

\* Variant of fetch that computes the headers for every query
ComputesAuthHeaders_Always(query) == TRUE

\* query !== REFRESH_TOKEN_MUTATION: the headers are computed by getAuthHeaders
ComputesAuthHeaders(query) == query # REFRESH_TOKEN_MUTATION

\* result && result.data && result.data.refreshAuthToken
RefreshAuthToken(result) ==
  IF result # Null /\ result[1].data # Null THEN result[1].data[1].refreshAuthToken
  ELSE Null

\* What the storage held for a token when a call was made: the raw token and
\* whether it was absent, expired (no expiry, or one before t) or valid
Stored(vals, t, tokenKey, expiresKey) ==
  LET token == getItem(vals, namespace \o tokenKey)
      expires == getItem(vals, namespace \o expiresKey)
  IN  [token |-> token,
       state |-> IF ~Truthy(token) THEN "absent"
                 ELSE IF expires = Null \/ parseInt(expires[1]) < t THEN "expired"
                 ELSE "valid"]

NothingStored == [token |-> Null, state |-> "absent"]

IdleCall ==
  [pc |-> "idle", query |-> "", variables |-> EmptyObject,
   access |-> NothingStored, refresh |-> NothingStored, after |-> "",
   refreshRequests |-> <<>>, refreshResponse |-> Null, stored |-> Null, loggedOut |-> FALSE,
   authHeaders |-> EmptyObject, mainRequests |-> <<>>, mainResponse |-> Null,
   result |-> Null, error |-> ""]

NoOp == [op |-> "none", by |-> "", token |-> Null, at |-> 0, until |-> 0]

NoOutcome == [tokenSet |-> Null, error |-> ""]

\* Nothing settled in the last step
NotSettled ==
  [what |-> "", call |-> IdleCall, authenticator |-> NoOutcome, returned |-> Null, thrown |-> ""]

\* fetch settled in the last step: the call as it ended
FetchSettled(call) == [NotSettled EXCEPT !.what = "fetch", !.call = call]

\* The call as the nested this.fetch(REFRESH_TOKEN_MUTATION, {token}) of
\* getAuthHeaders leaves it: the nested fetch posts the request without
\* computing headers; were it to compute them, getAuthHeaders would find the
\* same tokens and call fetch again, without end and without an await, until
\* the stack overflows
RefreshDispatch(call, refreshToken) ==
  IF ComputesAuthHeaders(REFRESH_TOKEN_MUTATION)
  THEN [call EXCEPT !.pc = "rejected", !.error = "RangeError"]
  ELSE [call EXCEPT !.pc = "awaitRefresh",
                    !.refreshRequests =
                       <<Request(REFRESH_TOKEN_MUTATION, [token |-> refreshToken[1]], EmptyObject)>>]

\* Variant of fetch that posts the main request at once, without awaiting
\* the headers
StartedCall_NoAwait(query, variables) ==
  LET refreshToken == getRefreshToken(values, now)
      call == [IdleCall EXCEPT
                 !.query = query, !.variables = variables,
                 !.access = Stored(values, now, ACCESS_TOKEN_KEY, ACCESS_TOKEN_EXPIRES_KEY),
                 !.refresh = Stored(values, now, REFRESH_TOKEN_KEY, REFRESH_TOKEN_EXPIRES_KEY),
                 !.after = lastOp.op,
                 !.mainRequests = <<Request(query, variables, EmptyObject)>>]
  IN  IF ComputesAuthHeaders(query) /\ NeedsRefresh(InitialAccessToken(values, now), refreshToken)
      THEN RefreshDispatch(call, refreshToken)
      ELSE [call EXCEPT !.pc = "awaitMain"]

\* The call as fetch(query, variables) leaves it at its first await
StartedCall(query, variables) ==
  LET accessToken == InitialAccessToken(values, now)
      refreshToken == getRefreshToken(values, now)
      call == [IdleCall EXCEPT
                 !.query = query, !.variables = variables,
                 !.access = Stored(values, now, ACCESS_TOKEN_KEY, ACCESS_TOKEN_EXPIRES_KEY),
                 !.refresh = Stored(values, now, REFRESH_TOKEN_KEY, REFRESH_TOKEN_EXPIRES_KEY),
                 !.after = lastOp.op]
  IN  IF ~ComputesAuthHeaders(query)
      THEN [call EXCEPT !.pc = "awaitMain",
                        !.mainRequests = <<Request(query, variables, EmptyObject)>>]
      ELSE IF NeedsRefresh(accessToken, refreshToken)
      THEN RefreshDispatch(call, refreshToken)
      ELSE [call EXCEPT !.pc = "awaitHeaders", !.authHeaders = AuthHeaders(accessToken)]

\* client.fetch(query, variables) called by the user
Fetch(c, query) ==
  /\ calls[c].pc = "idle"
  /\ calls' = [calls EXCEPT ![c] =
       StartedCall(query, IF query = REFRESH_TOKEN_MUTATION
                          THEN [token |-> "refresh1"] ELSE [id |-> "123"])]
  /\ settled' = NotSettled
  /\ UNCHANGED <<values, now, options, auth, lastOp>>

\* getAuthHeaders resumes with the outcome of the refresh request
RefreshResponse(c, response) ==
  /\ calls[c].pc = "awaitRefresh"
  /\ response \in RefreshResponses \cup MalformedRefreshResponses
  /\ IF Rejects(response)
     THEN LET call == [calls[c] EXCEPT !.pc = "rejected", !.error = "TransportError",
                                          !.refreshResponse = <<response>>]
          IN  /\ calls' = [calls EXCEPT ![c] = IF auth.call = c THEN call ELSE IdleCall]
              /\ settled' = IF auth.call = c THEN NotSettled ELSE FetchSettled(call)
              /\ UNCHANGED <<values, now, lastOp>>
     ELSE LET tokenSet == RefreshAuthToken(response.body)
          IN  /\ settled' = NotSettled
              /\ IF tokenSet # Null
                 THEN \E t2 \in Later(now) :
                        /\ values' = setAuthTokenSet(values, tokenSet[1], now, t2)
                        /\ now' = t2
                        /\ calls' = [calls EXCEPT
                             ![c].pc = "awaitHeaders",
                             ![c].refreshResponse = <<response>>,
                             ![c].stored = tokenSet,
                             ![c].authHeaders = AuthHeaders(getAccessToken(values', t2))]
                        /\ lastOp' = [op |-> "setAuthTokenSet", by |-> c, token |-> tokenSet,
                                      at |-> now, until |-> t2]
                 ELSE /\ values' = logout(values)
                      /\ calls' = [calls EXCEPT
                           ![c].pc = "awaitHeaders",
                           ![c].refreshResponse = <<response>>,
                           ![c].loggedOut = TRUE,
                           ![c].authHeaders = AuthHeaders(Null)]
                      /\ lastOp' = [op |-> "logout", by |-> c, token |-> Null, at |-> now, until |-> now]
                      /\ UNCHANGED now
  /\ UNCHANGED <<options, auth>>

\* fetch resumes with the authorization headers and posts the request
SendMain(c) ==
  /\ calls[c].pc = "awaitHeaders"
  /\ calls' = [calls EXCEPT
       ![c].pc = "awaitMain",
       ![c].mainRequests =
          Append(@, Request(calls[c].query, calls[c].variables, calls[c].authHeaders))]
  /\ settled' = NotSettled
  /\ UNCHANGED <<values, now, options, auth, lastOp>>

\* fetch resumes with the outcome of the request: return await result.json()
MainResponse(c, response) ==
  /\ calls[c].pc = "awaitMain"
  /\ response \in Responses(calls[c].query)
  /\ LET call == IF Rejects(response)
                 THEN [calls[c] EXCEPT !.pc = "rejected", !.error = "TransportError",
                                       !.mainResponse = <<response>>]
                 ELSE [calls[c] EXCEPT !.pc = "resolved", !.result = response.body,
                                       !.mainResponse = <<response>>]
     IN  /\ calls' = [calls EXCEPT ![c] = IF auth.call = c THEN call ELSE IdleCall]
         /\ settled' = IF auth.call = c THEN NotSettled ELSE FetchSettled(call)
  /\ UNCHANGED <<values, now, options, auth, lastOp>>

\* ------------------------------------------------------------ the caller
\* client.setAuthTokenSet(token) called by the user, who hands over a token
\* set only while none of its fetch calls is in flight
SetAuthTokenSet(token) ==
  /\ \A c \in Calls : calls[c].pc = "idle"
  /\ \E t2 \in Later(now) :
       /\ values' = setAuthTokenSet(values, token, now, t2)
       /\ now' = t2
       /\ lastOp' = [op |-> "setAuthTokenSet", by |-> "user", token |-> <<token>>,
                     at |-> now, until |-> t2]
  /\ settled' = NotSettled
  /\ UNCHANGED <<options, calls, auth>>

\* client.logout() called by the user
Logout ==
  /\ values' = logout(values)
  /\ lastOp' = [op |-> "logout", by |-> "user", token |-> Null, at |-> now, until |-> now]
  /\ settled' = NotSettled
  /\ UNCHANGED <<now, options, calls, auth>>

\* Time passes: a millisecond, or a second
Tick ==
  /\ \/ Millis(now) < MaxMs /\ now' = now + 1
     \/ Seconds(now) < MaxSec /\ now' = now + 1000
  /\ settled' = NotSettled
  /\ UNCHANGED <<values, options, calls, auth, lastOp>>

\* ------------------------------------------------------------ authenticate
\* The email/password authenticator once its client.fetch has settled: the
\* token set it returns, or the message of the error it throws
loginEmailPassword(call) ==
  IF call.pc = "rejected" THEN [tokenSet |-> Null, error |-> call.error]
  ELSE IF call.result = Null
  THEN [tokenSet |-> Null, error |-> "TypeError"]
  ELSE IF call.result[1].data # Null /\ call.result[1].data[1].tokenSet # Null
  THEN [tokenSet |-> call.result[1].data[1].tokenSet, error |-> ""]
  ELSE IF call.result[1].errors # <<>>
  THEN [tokenSet |-> Null, error |-> call.result[1].errors[1].message]
  ELSE [tokenSet |-> Null, error |-> "Login failed"]

\* await authenticator(this) returned: authenticate goes on to setAuthTokenSet
AuthenticatorReturned(outcome) == outcome.error = ""

\* Variant of authenticate that replaces the authenticator's error by its own
AuthenticateThrows_Wrapped(outcome) == "Authentication failed"

\* The error authenticate throws when the authenticator threw
AuthenticateThrows(outcome) == outcome.error

\* The value authenticate returns: return tokenSet
AuthenticateReturns(outcome) == outcome.tokenSet

IdleAuth == [pc |-> "idle", call |-> ""]

\* client.authenticate(login(email, password)): the authenticator posts the
\* login mutation through client.fetch
Authenticate(c) ==
  /\ auth.pc = "idle"
  /\ calls[c].pc = "idle"
  /\ calls' = [calls EXCEPT ![c] =
       StartedCall(LOGIN_MUTATION, [email |-> "info@slicknode.com", password |-> "12345"])]
  /\ auth' = [pc |-> "pending", call |-> c]
  /\ settled' = NotSettled
  /\ UNCHANGED <<values, now, options, lastOp>>

\* The authenticator's fetch has settled: the authenticator returns or
\* throws, and authenticate resumes and settles
AuthenticateResume ==
  /\ auth.pc = "pending"
  /\ calls[auth.call].pc \in {"resolved", "rejected"}
  /\ LET outcome == loginEmailPassword(calls[auth.call])
     IN  IF AuthenticatorReturned(outcome)
         THEN \E t2 \in Later(now) :
                /\ values' = setAuthTokenSet(values, outcome.tokenSet[1], now, t2)
                /\ now' = t2
                /\ lastOp' = [op |-> "setAuthTokenSet", by |-> "authenticate",
                              token |-> outcome.tokenSet, at |-> now, until |-> t2]
                /\ settled' = [NotSettled EXCEPT !.what = "authenticate",
                                                 !.authenticator = outcome,
                                                 !.returned = AuthenticateReturns(outcome)]
         ELSE /\ settled' = [NotSettled EXCEPT !.what = "authenticate",
                                               !.authenticator = outcome,
                                               !.thrown = AuthenticateThrows(outcome)]
              /\ UNCHANGED <<values, now, lastOp>>
  /\ calls' = [calls EXCEPT ![auth.call] = IdleCall]
  /\ auth' = IdleAuth
  /\ UNCHANGED options

\* ------------------------------------------------------------ specification
OptionsSpace ==
  {[accessToken |-> a, headers |-> h] :
     a \in {Null, <<"static">>},
     h \in {EmptyObject, [Authorization |-> "Basic custom"]}}

Init ==
  /\ values = [k \in {} |-> ""]
  /\ now = 1000
  /\ options \in OptionsSpace
  /\ calls = [c \in Calls |-> IdleCall]
  /\ auth = IdleAuth
  /\ lastOp = NoOp
  /\ settled = NotSettled

Next ==
  \/ \E c \in Calls, query \in {NODE_QUERY, REFRESH_TOKEN_MUTATION} : Fetch(c, query)
  \/ \E c \in Calls, response \in RefreshResponses : RefreshResponse(c, response)
  \/ \E c \in Calls : SendMain(c)
  \/ \E c \in Calls, response \in LoginResponses \cup QueryResponses :
       MainResponse(c, response)
  \/ \E token \in TokenSets : SetAuthTokenSet(token)
  \/ Logout
  \/ Tick
  \/ \E c \in Calls : Authenticate(c)
  \/ AuthenticateResume

Spec == Init /\ [][Next]_vars

TypeOK ==
  /\ DOMAIN values \subseteq {namespace \o k : k \in {REFRESH_TOKEN_KEY, REFRESH_TOKEN_EXPIRES_KEY,
                                                      ACCESS_TOKEN_KEY, ACCESS_TOKEN_EXPIRES_KEY}}
  /\ now \in 1000..(MaxSec * 1000 + MaxMs)
  /\ \A c \in Calls : calls[c].pc \in {"idle", "awaitRefresh", "awaitHeaders", "awaitMain", "resolved", "rejected"}

\* ------------------------------------------------------------ vocabulary of the claims
\* Every fetch call there is something to say about: those in flight and the
\* one that settled in the last step
AllCalls == {calls[c] : c \in Calls} \cup {settled.call}

\* The Authorization header a request carries, or Null
Authorization(request) ==
  IF "Authorization" \in DOMAIN request.headers THEN <<request.headers["Authorization"]>> ELSE Null

\* The Authorization header options.headers configures, or Null
ConfiguredAuthorization ==
  IF "Authorization" \in DOMAIN options.headers THEN <<options.headers["Authorization"]>> ELSE Null

Bearer(token) == <<"Bearer " \o token>>

\* What a request carries whose computed header is the given one (or none):
\* a configured Authorization header is sent in its place
Carried(computed) == IF ConfiguredAuthorization # Null THEN ConfiguredAuthorization ELSE computed

\* The refresh response contains data.refreshAuthToken
HasRefreshAuthToken(response) ==
  /\ ~response.failed
  /\ response.body # Null
  /\ response.body[1].data # Null
  /\ response.body[1].data[1].refreshAuthToken # Null

ResponseTokenSet(response) == response.body[1].data[1].refreshAuthToken[1]

PositiveLifetimes(token) == token.accessTokenLifetime > 0 /\ token.refreshTokenLifetime > 0

\* The raw value stored under a key of the namespace, or Null
Raw(key) == getItem(values, namespace \o key)

\* The storage still holds what the last setAuthTokenSet wrote, and no more
\* time has passed than the shorter lifetime of positive lifetimes
WithinLifetimes(token) ==
  /\ now - lastOp.at <= token.accessTokenLifetime * 1000
  /\ now - lastOp.at <= token.refreshTokenLifetime * 1000

\* A non-refresh fetch made without static access token while the stored
\* access token was expired and the stored refresh token valid
MadeExpiredWithRefresh(call) ==
  /\ call.pc # "idle"
  /\ call.query # REFRESH_TOKEN_MUTATION
  /\ options.accessToken = Null
  /\ call.access.state = "expired"
  /\ call.refresh.state = "valid"

\* Exactly one refresh request, with variables {token: <stored refresh token>}
OneRefreshRequest(call) ==
  /\ Len(call.refreshRequests) = 1
  /\ call.refreshRequests[1].query = REFRESH_TOKEN_MUTATION
  /\ call.refreshRequests[1].variables = [token |-> call.refresh.token[1]]

\* The storage is as the refresh of this call left it
AsRefreshed(call) ==
  /\ call.stored # Null
  /\ lastOp.op = "setAuthTokenSet"
  /\ lastOp.by \in Calls
  /\ lastOp.token = call.stored
  /\ calls[lastOp.by] = call \/ settled.call = call

\* After a refresh: the getters return the tokens of the set, and both
\* expiries are later than the time of the refresh
RefreshedTokensReadable(token) ==
  /\ getAccessToken(values, now) = <<token.accessToken>>
  /\ getRefreshToken(values, now) = <<token.refreshToken>>
  /\ getAccessTokenExpires(values) # Null /\ getAccessTokenExpires(values)[1] > lastOp.at
  /\ getRefreshTokenExpires(values) # Null /\ getRefreshTokenExpires(values)[1] > lastOp.at

\* ------------------------------------------------------------ C1
\* C1 as stated: a non-refresh fetch made, without static access token, while
\* the stored access token is expired and the refresh token valid sends exactly
\* one refresh request with {token: <stored refresh token>}; if the response
\* contains data.refreshAuthToken, the main request carries Authorization:
\* Bearer <access token of the response>, and afterwards the getters return the
\* tokens of the response and both expiries are later than the refresh.
C1_AsStated ==
  \A call \in AllCalls :
    MadeExpiredWithRefresh(call) =>
      /\ OneRefreshRequest(call)
      /\ (call.refreshResponse # Null /\ HasRefreshAuthToken(call.refreshResponse[1])) =>
           LET token == ResponseTokenSet(call.refreshResponse[1])
           IN  /\ \A i \in DOMAIN call.mainRequests :
                    Authorization(call.mainRequests[i]) = Bearer(token.accessToken)
               /\ (AsRefreshed(call) /\ now = lastOp.until) => RefreshedTokensReadable(token)

\* C1 (amended): as C1, for a refresh response whose token set has two positive
\* lifetimes, the Bearer header being sent unless options.headers configures an
\* Authorization header of its own (which is then the one sent), and the getters
\* returning the tokens for as long as the lifetimes last.
C1_RefreshOnExpiredAccess ==
  \A call \in AllCalls :
    MadeExpiredWithRefresh(call) =>
      /\ OneRefreshRequest(call)
      /\ (/\ call.refreshResponse # Null
          /\ HasRefreshAuthToken(call.refreshResponse[1])
          /\ PositiveLifetimes(ResponseTokenSet(call.refreshResponse[1]))) =>
           LET token == ResponseTokenSet(call.refreshResponse[1])
           IN  /\ call.pc \in {"awaitHeaders", "awaitMain", "resolved", "rejected"}
               /\ call.pc # "awaitHeaders" => Len(call.mainRequests) = 1
               /\ \A i \in DOMAIN call.mainRequests :
                    Authorization(call.mainRequests[i]) = Carried(Bearer(token.accessToken))
               /\ (AsRefreshed(call) /\ WithinLifetimes(token)) => RefreshedTokensReadable(token)

\* C1 witness: a call made with an expired access token and a valid refresh
\* token has refreshed and has sent its main request with the new Bearer token
C1_Witness ==
  \E c \in Calls :
    /\ MadeExpiredWithRefresh(calls[c])
    /\ calls[c].pc = "awaitMain"
    /\ calls[c].refreshResponse # Null
    /\ HasRefreshAuthToken(calls[c].refreshResponse[1])
    /\ PositiveLifetimes(ResponseTokenSet(calls[c].refreshResponse[1]))
    /\ Authorization(calls[c].mainRequests[1])
         = Bearer(ResponseTokenSet(calls[c].refreshResponse[1]).accessToken)
    /\ AsRefreshed(calls[c])
    /\ now > lastOp.until

\* ------------------------------------------------------------ C2
\* A non-refresh fetch made without static access token while the stored
\* access token was valid (present, with an expiry not before the call)
MadeWithValidAccess(call) ==
  /\ call.pc # "idle"
  /\ call.query # REFRESH_TOKEN_MUTATION
  /\ options.accessToken = Null
  /\ call.access.state = "valid"

\* The call has issued no refresh request, and its main request (one, once
\* the headers are there) carries the given Authorization header, or none
OnlyMainRequest(call, authorization) ==
  /\ call.refreshRequests = <<>>
  /\ call.refreshResponse = Null
  /\ Len(call.mainRequests) = (IF call.pc = "awaitHeaders" THEN 0 ELSE 1)
  /\ \A i \in DOMAIN call.mainRequests :
       Authorization(call.mainRequests[i]) = authorization

\* C2 as stated: a non-refresh fetch made, without static access token, while
\* the stored access token is unexpired sends one request only, the main
\* request, with Authorization: Bearer <stored access token>, and no refresh
\* request, whatever the state of the refresh token.
C2_AsStated ==
  \A call \in AllCalls :
    MadeWithValidAccess(call) => OnlyMainRequest(call, Bearer(call.access.token[1]))

\* C2 (amended): as C2, the Bearer header being sent unless options.headers
\* configures an Authorization header of its own, which is then the one sent.
C2_ValidAccessTokenSent ==
  \A call \in AllCalls :
    MadeWithValidAccess(call) => OnlyMainRequest(call, Carried(Bearer(call.access.token[1])))

\* C2 witness: a main request with the stored Bearer token is in flight for a
\* call made while the refresh token was expired
C2_Witness ==
  \E c \in Calls :
    /\ MadeWithValidAccess(calls[c])
    /\ calls[c].refresh.state = "expired"
    /\ calls[c].pc = "awaitMain"
    /\ Authorization(calls[c].mainRequests[1]) = Bearer(calls[c].access.token[1])

\* ------------------------------------------------------------ C3
\* A fetch made without static access token while neither stored token was
\* usable
MadeWithoutUsableTokens(call) ==
  /\ call.pc # "idle"
  /\ options.accessToken = Null
  /\ call.access.state \in {"absent", "expired"}
  /\ call.refresh.state \in {"absent", "expired"}

\* C3 as stated: a fetch made, without static access token, while the stored
\* access token is absent or expired and the stored refresh token is absent or
\* expired issues no refresh request and sends the main request without
\* Authorization header.
C3_AsStated ==
  \A call \in AllCalls : MadeWithoutUsableTokens(call) => OnlyMainRequest(call, Null)

\* C3 (amended): as C3, the main request carrying no Authorization header
\* other than the one options.headers may configure.
C3_GuestRequest ==
  \A call \in AllCalls : MadeWithoutUsableTokens(call) => OnlyMainRequest(call, Carried(Null))

\* C3 witness: the main request of a call made with both tokens expired is in
\* flight without Authorization header
C3_Witness ==
  \E c \in Calls :
    /\ calls[c].query = NODE_QUERY
    /\ MadeWithoutUsableTokens(calls[c])
    /\ calls[c].access.state = "expired"
    /\ calls[c].refresh.state = "expired"
    /\ calls[c].pc = "awaitMain"
    /\ Authorization(calls[c].mainRequests[1]) = Null

\* ------------------------------------------------------------ C4
\* The refresh request of the call was answered without data.refreshAuthToken
RefreshRefused(call) ==
  /\ call.refreshResponse # Null
  /\ ~call.refreshResponse[1].failed
  /\ ~HasRefreshAuthToken(call.refreshResponse[1])

\* None of the four fields is stored
NothingIsStored ==
  /\ Raw(ACCESS_TOKEN_KEY) = Null
  /\ Raw(ACCESS_TOKEN_EXPIRES_KEY) = Null
  /\ Raw(REFRESH_TOKEN_KEY) = Null
  /\ Raw(REFRESH_TOKEN_EXPIRES_KEY) = Null

\* The call went on after the refused refresh: logout() ran and cleared the
\* four fields while the main request was not yet sent, the main request is
\* sent, with the given Authorization header or none, and the call is only
\* rejected by the failure of its main request
GoesOnLoggedOut(call, authorization) ==
  /\ call.loggedOut
  /\ call.stored = Null
  /\ call.pc \in {"awaitHeaders", "awaitMain", "resolved", "rejected"}
  /\ Len(call.mainRequests) = (IF call.pc = "awaitHeaders" THEN 0 ELSE 1)
  /\ \A i \in DOMAIN call.mainRequests :
       Authorization(call.mainRequests[i]) = authorization
  /\ (call.pc = "awaitHeaders" /\ lastOp.op = "logout" /\ lastOp.by \in Calls) => NothingIsStored

\* C4 as stated: when the refresh response lacks data.refreshAuthToken, the
\* four stored fields are cleared before the main request is sent, the main
\* request is still sent, without Authorization header, and the fetch does not
\* reject because of the refused refresh.
C4_AsStated ==
  \A call \in AllCalls : RefreshRefused(call) => GoesOnLoggedOut(call, Null)

\* C4 (amended): as C4, the main request carrying no Authorization header
\* other than the one options.headers may configure.
C4_RefusedRefreshLogsOut ==
  \A call \in AllCalls : RefreshRefused(call) => GoesOnLoggedOut(call, Carried(Null))

\* C4 witness: after a refused refresh the main request is in flight without
\* Authorization header and nothing is stored
C4_Witness ==
  \E c \in Calls :
    /\ RefreshRefused(calls[c])
    /\ calls[c].pc = "awaitMain"
    /\ Authorization(calls[c].mainRequests[1]) = Null
    /\ NothingIsStored

\* ------------------------------------------------------------ C5
\* The requests of a call whose query is the refresh mutation
RefreshMutationRequests(call) ==
  {call.refreshRequests[i] : i \in DOMAIN call.refreshRequests}
  \cup {call.mainRequests[i] : i \in {j \in DOMAIN call.mainRequests :
                                        call.mainRequests[j].query = REFRESH_TOKEN_MUTATION}}

\* C5 as stated: every request whose query is the refresh mutation is sent
\* without Authorization header, in every client state and configuration.
C5_AsStated ==
  \A call \in AllCalls : \A request \in RefreshMutationRequests(call) :
    Authorization(request) = Null

\* C5 (amended): no header is computed for a request whose query is the
\* refresh mutation: it carries no Authorization header but the one that
\* options.headers may configure, whatever the storage holds and whether or
\* not a static access token is configured.
C5_RefreshRequestUnauthorized ==
  \A call \in AllCalls : \A request \in RefreshMutationRequests(call) :
    /\ request.query = REFRESH_TOKEN_MUTATION
    /\ Authorization(request) = ConfiguredAuthorization

\* C5 witness: a refresh request is in flight without Authorization header
\* although the storage held a stale access token when it was sent
C5_Witness ==
  \E c \in Calls :
    /\ calls[c].pc = "awaitRefresh"
    /\ calls[c].access.state = "expired"
    /\ calls[c].access.token # Null
    /\ Authorization(calls[c].refreshRequests[1]) = Null

\* ------------------------------------------------------------ C6
\* The four getters return absent
AllGettersAbsent ==
  /\ getAccessToken(values, now) = Null
  /\ getRefreshToken(values, now) = Null
  /\ getAccessTokenExpires(values) = Null
  /\ getRefreshTokenExpires(values) = Null

\* A fetch made without static access token when the last operation on the
\* storage was a logout()
MadeAfterLogout(call) ==
  /\ call.pc # "idle"
  /\ options.accessToken = Null
  /\ call.after = "logout"

\* C6 as stated: after logout() the four getters return absent, and a
\* following fetch of a client without static access token is sent as a guest
\* request with no refresh request.
C6_AsStated ==
  /\ lastOp.op = "logout" => AllGettersAbsent
  /\ \A call \in AllCalls : MadeAfterLogout(call) => OnlyMainRequest(call, Null)

\* C6 (amended): as C6, the following request carrying no Authorization header
\* other than the one options.headers may configure.
C6_LogoutClears ==
  /\ lastOp.op = "logout" => AllGettersAbsent
  /\ \A call \in AllCalls : MadeAfterLogout(call) => OnlyMainRequest(call, Carried(Null))

\* C6 witness: the caller has logged out and, later, the main request of a
\* following fetch is in flight without Authorization header
C6_Witness ==
  \E c \in Calls :
    /\ calls[c].query = NODE_QUERY
    /\ lastOp.op = "logout"
    /\ lastOp.by = "user"
    /\ now > lastOp.at
    /\ MadeAfterLogout(calls[c])
    /\ calls[c].pc = "awaitMain"
    /\ Authorization(calls[c].mainRequests[1]) = Null

\* ------------------------------------------------------------ C7
\* The token set handed to the last setAuthTokenSet
LastTokenSet == lastOp.token[1]

\* The time elapsed since the last setAuthTokenSet was called is below the
\* two lifetimes of its token set
BelowLifetimes ==
  /\ now - lastOp.at < LastTokenSet.accessTokenLifetime * 1000
  /\ now - lastOp.at < LastTokenSet.refreshTokenLifetime * 1000

\* C7: for every token set whose two lifetimes are positive, after
\* setAuthTokenSet, by whomever it is called, and as long as the time elapsed
\* is below the lifetimes, getAccessToken() and getRefreshToken() return the
\* tokens of the set, and getAccessTokenExpires() and getRefreshTokenExpires()
\* are strictly greater than the time of the call.
C7_PositiveLifetimesReadable ==
  (lastOp.op = "setAuthTokenSet" /\ PositiveLifetimes(LastTokenSet) /\ BelowLifetimes) =>
    /\ getAccessToken(values, now) = <<LastTokenSet.accessToken>>
    /\ getRefreshToken(values, now) = <<LastTokenSet.refreshToken>>
    /\ hasAccessToken(values, now)
    /\ hasRefreshToken(values, now)
    /\ getAccessTokenExpires(values) # Null
    /\ getAccessTokenExpires(values)[1] > lastOp.until
    /\ getRefreshTokenExpires(values) # Null
    /\ getRefreshTokenExpires(values)[1] > lastOp.until

\* C7 witness: the caller has stored a token set with positive lifetimes, some
\* time below the lifetimes has elapsed, and the tokens are read back
C7_Witness ==
  /\ lastOp.op = "setAuthTokenSet"
  /\ lastOp.by = "user"
  /\ PositiveLifetimes(LastTokenSet)
  /\ now > lastOp.until
  /\ BelowLifetimes
  /\ getAccessToken(values, now) = <<LastTokenSet.accessToken>>
  /\ getRefreshToken(values, now) = <<LastTokenSet.refreshToken>>

\* ------------------------------------------------------------ C8
\* The raw values of the two tokens of the last token set are held in storage
RawTokensHeld ==
  /\ Raw(ACCESS_TOKEN_KEY) = <<LastTokenSet.accessToken>>
  /\ Raw(REFRESH_TOKEN_KEY) = <<LastTokenSet.refreshToken>>

\* C8: for every token set with a negative or zero lifetime, getAccessToken()
\* (respectively getRefreshToken()) returns absent after setAuthTokenSet, also
\* when the clock has not advanced between the write and the read, while the
\* raw token value is still held in storage.
C8_NonPositiveLifetimesAbsent ==
  lastOp.op = "setAuthTokenSet" =>
    /\ RawTokensHeld
    /\ LastTokenSet.accessTokenLifetime <= 0 => getAccessToken(values, now) = Null
    /\ LastTokenSet.refreshTokenLifetime <= 0 => getRefreshToken(values, now) = Null

\* ------------------------------------------------------------ C9
\* A fetch of a non-refresh query by a client with a static access token
MadeWithStaticToken(call) ==
  /\ call.pc # "idle"
  /\ call.query # REFRESH_TOKEN_MUTATION
  /\ options.accessToken # Null

\* No fetch call has written the store: the last operation on it, if any, is
\* the caller's or authenticate's
NoCallWroteStore == lastOp.by \notin Calls

\* The call has neither stored a token set nor logged out
LeftStoreAlone(call) == call.stored = Null /\ ~call.loggedOut

\* C9 as stated: with a static access token configured, every fetch of a
\* non-refresh query carries Authorization: Bearer <static token>, issues no
\* refresh request and leaves the stored credentials unchanged, also when the
\* stored access token is expired or absent and a valid refresh token is
\* stored, and also when a valid access token is stored.
C9_AsStated ==
  \A call \in AllCalls :
    MadeWithStaticToken(call) =>
      /\ OnlyMainRequest(call, Bearer(options.accessToken[1]))
      /\ LeftStoreAlone(call)
      /\ NoCallWroteStore

\* C9 (amended): as C9, the Bearer header being sent unless options.headers
\* configures an Authorization header of its own, which is then the one sent.
C9_StaticTokenUsed ==
  \A call \in AllCalls :
    MadeWithStaticToken(call) =>
      /\ OnlyMainRequest(call, Carried(Bearer(options.accessToken[1])))
      /\ LeftStoreAlone(call)
      /\ NoCallWroteStore

\* C9 witness: the main request is in flight with the static token for a call
\* made while the stored access token was expired and the stored refresh
\* token valid, and the store still holds these tokens
C9_Witness ==
  \E c \in Calls :
    /\ MadeWithStaticToken(calls[c])
    /\ calls[c].access.state = "expired"
    /\ calls[c].refresh.state = "valid"
    /\ calls[c].pc = "awaitMain"
    /\ Authorization(calls[c].mainRequests[1]) = Bearer(options.accessToken[1])
    /\ Raw(ACCESS_TOKEN_KEY) = calls[c].access.token
    /\ Raw(REFRESH_TOKEN_KEY) = calls[c].refresh.token

\* ------------------------------------------------------------ C10
\* authenticate has settled in the last step, the authenticator having
\* produced a token set (TRUE) or thrown (FALSE)
AuthenticateSettled(produced) ==
  /\ settled.what = "authenticate"
  /\ (settled.authenticator.tokenSet # Null) = produced

\* The outcome of authenticate is the outcome of the authenticator, and a
\* token set it produced is the last one stored, by authenticate
SettledAsAuthenticator ==
  /\ AuthenticateSettled(TRUE) =>
       /\ settled.returned = settled.authenticator.tokenSet
       /\ settled.thrown = ""
       /\ lastOp.op = "setAuthTokenSet"
       /\ lastOp.by = "authenticate"
       /\ lastOp.token = settled.returned
       /\ RawTokensHeld
       /\ PositiveLifetimes(LastTokenSet) =>
            /\ getAccessToken(values, now) = <<LastTokenSet.accessToken>>
            /\ getRefreshToken(values, now) = <<LastTokenSet.refreshToken>>
  /\ AuthenticateSettled(FALSE) =>
       /\ settled.returned = Null
       /\ settled.thrown # ""
       /\ settled.thrown = settled.authenticator.error

\* The step in which authenticate fails writes nothing to the store
FailureWritesNothing ==
  (settled'.what = "authenticate" /\ settled'.authenticator.tokenSet = Null) =>
    /\ values' = values
    /\ lastOp' = lastOp

\* C10: when the authenticator produces a token set, authenticate stores it
\* through setAuthTokenSet, so that the tokens are readable afterwards, and
\* returns it; when the authenticator fails, authenticate fails with the same
\* error and, setAuthTokenSet not being called, writes nothing to the store.
C10_AuthenticatePersistsOrPropagates ==
  [](SettledAsAuthenticator) /\ [][FailureWritesNothing]_vars

\* C10 witness: authenticate has returned the token set of the login response
\* and the getters now read the tokens of that set
C10_Witness ==
  /\ AuthenticateSettled(TRUE)
  /\ settled.returned # Null
  /\ PositiveLifetimes(settled.returned[1])
  /\ getAccessToken(values, now) = <<settled.returned[1].accessToken>>
  /\ getRefreshToken(values, now) = <<settled.returned[1].refreshToken>>

\* authenticate has failed with the error message of the login response
C10_FailureWitness ==
  /\ AuthenticateSettled(FALSE)
  /\ settled.thrown = "wrong password"
  /\ Raw(ACCESS_TOKEN_KEY) # Null

\* ------------------------------------------------------------ the constructor
\* A value handed over as options.endpoint, with what typeof says of it
JsValue(type, value) == [type |-> type, value |-> value]
typeof(v) == v.type
Endpoints ==
  {JsValue("undefined", ""), JsValue("object", "null"), JsValue("number", "8080"),
   JsValue("string", ""), JsValue("string", "https://dummyhost")}

\* The arguments of new Client(options): no options at all, or options with
\* any endpoint, with or without namespace (possibly the empty string),
\* storage, static access token and headers
ConstructorArguments ==
  {Null} \cup
  {<<[endpoint |-> e, namespace |-> n, storage |-> s, accessToken |-> a, headers |-> h]>> :
     e \in Endpoints, n \in {Null, <<"">>, <<"myapp">>}, s \in {Null, <<"options.storage">>},
     a \in {Null, <<"static">>}, h \in {EmptyObject, [Authorization |-> "Basic custom"]}}

ENDPOINT_ERROR == "You have to provide the endpoint of the GraphQL server to the client"

\* !options || typeof options.endpoint !== 'string'
ConstructorThrows(opts) == opts = Null \/ typeof(opts[1].endpoint) # "string"

\* The fields of the client the constructor returns, in an environment with
\* or without global.localStorage
Constructed(opts, localStorage) ==
  [options |-> opts[1],
   namespace |-> IF opts[1].namespace # Null /\ opts[1].namespace[1] # ""
                 THEN opts[1].namespace[1] ELSE DEFAULT_NAMESPACE,
   storage |-> IF opts[1].storage # Null THEN opts[1].storage[1]
               ELSE IF localStorage THEN "global.localStorage" ELSE "MemoryStorage"]

\* new Client(options), options being the argument held in the variable
\* options: it throws, or returns the client, and sends no request
New ==
  /\ settled = NotSettled
  /\ \E localStorage \in BOOLEAN :
       settled' = IF ConstructorThrows(options)
                  THEN [NotSettled EXCEPT !.what = "new", !.thrown = ENDPOINT_ERROR]
                  ELSE [NotSettled EXCEPT !.what = "new",
                                          !.returned = <<Constructed(options, localStorage)>>]
  /\ UNCHANGED <<values, now, options, calls, auth, lastOp>>

\* The constructor applied to every argument
InitNew ==
  /\ values = [k \in {} |-> ""]
  /\ now = 1000
  /\ options \in ConstructorArguments
  /\ calls = [c \in Calls |-> IdleCall]
  /\ auth = IdleAuth
  /\ lastOp = NoOp
  /\ settled = NotSettled

NextNew == New

SpecNew == InitNew /\ [][NextNew]_vars

\* ------------------------------------------------------------ C11
\* The endpoint of the options is a non-empty string
NonEmptyStringEndpoint(opts) ==
  /\ opts # Null
  /\ typeof(opts[1].endpoint) = "string"
  /\ opts[1].endpoint.value # ""

\* C11: constructing a client fails at once, in the constructor and before
\* any request, whenever the endpoint is not a non-empty string: options
\* missing, endpoint missing, endpoint not a string, or endpoint the empty
\* string.
C11_EndpointRequired ==
  (settled.what = "new" /\ ~NonEmptyStringEndpoint(options)) =>
    /\ settled.thrown = ENDPOINT_ERROR
    /\ settled.returned = Null

\* ------------------------------------------------------------ C13
\* The headers of a request other than the two headers of a JSON body
JSON_HEADERS == {"Content-Type", "Accept"}
SentHeaders(request) ==
  [k \in DOMAIN request.headers \ JSON_HEADERS |-> request.headers[k]]

\* The headers sent are those computed and those configured, and where both
\* have a header the configured value is the one sent
MergedHeaders(request, computed) ==
  /\ DOMAIN SentHeaders(request) = DOMAIN computed \cup DOMAIN options.headers
  /\ \A k \in DOMAIN options.headers : SentHeaders(request)[k] = options.headers[k]
  /\ \A k \in DOMAIN computed \ DOMAIN options.headers : SentHeaders(request)[k] = computed[k]

InitShapes ==
  /\ Init
  /\ options.headers = EmptyObject

NextShapes ==
  \/ Next
  \/ \E c \in Calls, response \in MalformedRefreshResponses : RefreshResponse(c, response)

SpecShapes == InitShapes /\ [][NextShapes]_vars

\* ------------------------------------------------------------ C12
\* The token set has its two tokens
CompleteTokenSet(token) == token.accessToken # undefined /\ token.refreshToken # undefined

\* The response has the shape {data: {refreshAuthToken: AuthTokenSet}}
SuccessShape(response) ==
  /\ HasRefreshAuthToken(response)
  /\ CompleteTokenSet(ResponseTokenSet(response))

\* C12: a refresh response is treated as a success only when it has the shape
\* {data: {refreshAuthToken: AuthTokenSet}} with a complete token set; every
\* other response shape, also a data.refreshAuthToken object that lacks
\* fields, is a refresh failure: logout() is performed, nothing of the
\* response is stored, and the main request is sent without Authorization
\* header.
C12_OnlyCompleteShapeSucceeds ==
  \A call \in AllCalls :
    (call.refreshResponse # Null /\ ~call.refreshResponse[1].failed) =>
      IF SuccessShape(call.refreshResponse[1])
      THEN call.stored = <<ResponseTokenSet(call.refreshResponse[1])>> /\ ~call.loggedOut
      ELSE GoesOnLoggedOut(call, Null)

\* ------------------------------------------------------------ C14
\* The four fields are stored
AllStored ==
  /\ Raw(ACCESS_TOKEN_KEY) # Null
  /\ Raw(ACCESS_TOKEN_EXPIRES_KEY) # Null
  /\ Raw(REFRESH_TOKEN_KEY) # Null
  /\ Raw(REFRESH_TOKEN_EXPIRES_KEY) # Null

\* The four fields stored are those of the last token set handed to
\* setAuthTokenSet, with the expiries computed in that call
StoredFromLastTokenSet ==
  /\ lastOp.op = "setAuthTokenSet"
  /\ RawTokensHeld
  /\ Raw(ACCESS_TOKEN_EXPIRES_KEY) =
       <<String(LastTokenSet.accessTokenLifetime * 1000 + lastOp.at)>>
  /\ Raw(REFRESH_TOKEN_EXPIRES_KEY) =
       <<String(LastTokenSet.refreshTokenLifetime * 1000 + lastOp.until)>>

\* C14: in every state reached by setAuthTokenSet, logout, fetch (with a
\* successful, refused or failed refresh) and authenticate, at every point
\* where another operation could run, the four stored fields are either all
\* present or all absent, and those present all come from the same token set:
\* a partially written token set is never observable.
C14_TokenSetAtomic ==
  /\ NothingIsStored \/ AllStored
  /\ AllStored => StoredFromLastTokenSet

\* ------------------------------------------------------------ C15
\* How far a call has come
Rank(pc) ==
  CASE pc = "idle" -> 0
    [] pc = "awaitRefresh" -> 1
    [] pc = "awaitHeaders" -> 2
    [] pc = "awaitMain" -> 3
    [] OTHER -> 4

\* The transport calls a call has made
TransportCalls(call) == Len(call.refreshRequests) + Len(call.mainRequests)

\* A call has made at most one refresh request, for which no header was
\* computed, and at most two transport calls, and it ends by the outcome of a
\* transport call only
BoundedDispatch ==
  \A call \in AllCalls :
    /\ Len(call.refreshRequests) <= 1
    /\ TransportCalls(call) <= 2
    /\ \A i \in DOMAIN call.refreshRequests :
         /\ call.refreshRequests[i].query = REFRESH_TOKEN_MUTATION
         /\ SentHeaders(call.refreshRequests[i]) = options.headers
    /\ call.pc = "rejected" => call.error = "TransportError"
    /\ call.pc \in {"resolved", "rejected"} => TransportCalls(call) >= 1

\* Every step of a call takes it further or ends it, and the step that
\* completes its main request ends it
CallAdvances ==
  \A c \in DOMAIN calls :
    calls'[c] # calls[c] =>
      /\ calls'[c].pc = "idle" \/ Rank(calls'[c].pc) > Rank(calls[c].pc)
      /\ calls[c].pc = "awaitMain" => calls'[c].pc \in {"idle", "resolved", "rejected"}

\* C15: every fetch call performs at most one refresh request and at most two
\* transport calls, and ends once its transport calls have completed; the
\* refresh request is dispatched without computing authorization headers, so
\* that it never triggers a further refresh.
C15_AtMostOneRefresh == [](BoundedDispatch) /\ [][CallAdvances]_vars

\* C15 witness: a call that needed a refresh has settled after its two
\* transport calls, one refresh request and one main request
C15_Witness ==
  /\ settled.what = "fetch"
  /\ settled.call.pc = "resolved"
  /\ Len(settled.call.refreshRequests) = 1
  /\ Len(settled.call.mainRequests) = 1

\* ------------------------------------------------------------ C16
\* The outcome of the call's refresh request has been applied to the store:
\* a token set stored by setAuthTokenSet, or logout()
RefreshApplied(call) ==
  /\ call.refreshResponse # Null
  /\ IF HasRefreshAuthToken(call.refreshResponse[1])
     THEN call.stored = <<ResponseTokenSet(call.refreshResponse[1])>> /\ ~call.loggedOut
     ELSE call.stored = Null /\ call.loggedOut

\* No main request of a call is out while its refresh request is in flight,
\* and the refresh of a call whose main request is out has been answered and
\* applied
MainAfterRefresh ==
  \A call \in AllCalls :
    /\ call.pc = "awaitRefresh" => call.mainRequests = <<>>
    /\ (call.refreshRequests # <<>> /\ call.mainRequests # <<>>) => RefreshApplied(call)

\* The step that issues the main request of a call that made a refresh
\* request starts where that refresh has been answered and applied
MainIssuedAfterRefresh ==
  \A c \in DOMAIN calls :
    (calls[c].refreshRequests # <<>> /\ calls[c].mainRequests = <<>>
       /\ calls'[c].mainRequests # <<>>) =>
      /\ calls[c].pc = "awaitHeaders"
      /\ RefreshApplied(calls[c])
      /\ values' = values

\* C16: within a fetch call that needs a refresh, the main request is issued
\* only after the refresh request has completed and its outcome has been
\* applied to the store (setAuthTokenSet on success, logout on refusal); it is
\* never issued while the call's own refresh is in flight.
C16_MainAfterRefresh == [](MainAfterRefresh) /\ [][MainIssuedAfterRefresh]_vars

\* C16 witness: the main request of a call is out, after its refresh request
\* was refused and logout() applied
C16_Witness ==
  \E c \in Calls :
    /\ calls[c].pc = "awaitMain"
    /\ Len(calls[c].refreshRequests) = 1
    /\ calls[c].loggedOut
    /\ lastOp.op = "logout"
    /\ lastOp.by = c
    /\ NothingIsStored

\* ------------------------------------------------------------ C17
\* The transport of the call's refresh request, or of its main request, failed
RefreshTransportFailed(call) ==
  call.refreshResponse # Null /\ call.refreshResponse[1].failed
MainTransportFailed(call) ==
  call.mainResponse # Null /\ call.mainResponse[1].failed

\* A call whose refresh transport failed is rejected with that failure, has
\* sent no main request, has neither logged out nor stored anything, and has
\* made the one refresh request; a call whose main transport failed is
\* rejected with that failure after the one main request
TransportFailureRejects ==
  \A call \in AllCalls :
    /\ RefreshTransportFailed(call) =>
         /\ call.pc = "rejected"
         /\ call.error = "TransportError"
         /\ call.mainRequests = <<>>
         /\ ~call.loggedOut
         /\ call.stored = Null
         /\ Len(call.refreshRequests) = 1
    /\ MainTransportFailed(call) =>
         /\ call.pc = "rejected"
         /\ call.error = "TransportError"
         /\ Len(call.mainRequests) = 1
         /\ Len(call.refreshRequests) <= 1

\* The call is rejected in the next state
RejectedNext(c) ==
  \/ calls'[c].pc = "rejected"
  \/ calls'[c].pc = "idle" /\ settled'.what = "fetch" /\ settled'.call.pc = "rejected"

\* The step that rejects a call leaves the store as it is
RejectionWritesNothing ==
  \A c \in DOMAIN calls :
    (calls[c].pc \in {"awaitRefresh", "awaitMain"} /\ calls'[c] # calls[c] /\ RejectedNext(c)) =>
      /\ values' = values
      /\ lastOp' = lastOp

\* C17: a transport failure of the refresh request makes the enclosing fetch
\* reject with that failure: the main request is never sent, logout() is not
\* performed, the stored credentials are left unchanged and no request is
\* retried; a transport failure of the main request likewise rejects the fetch
\* without retry and without changing the store.
C17_TransportFailureRejects ==
  [](TransportFailureRejects) /\ [][RejectionWritesNothing]_vars

\* C17 witness: a fetch has been rejected by the failure of its refresh
\* request, and the store still holds the tokens it held when the call was made
C17_Witness ==
  /\ settled.what = "fetch"
  /\ RefreshTransportFailed(settled.call)
  /\ settled.call.pc = "rejected"
  /\ Raw(REFRESH_TOKEN_KEY) = settled.call.refresh.token
  /\ Raw(ACCESS_TOKEN_KEY) = settled.call.access.token
  /\ Raw(REFRESH_TOKEN_KEY) # Null

\* ------------------------------------------------------------ C19
\* The expiries computed by the last setAuthTokenSet
LastAccessExpiry == LastTokenSet.accessTokenLifetime * 1000 + lastOp.at
LastRefreshExpiry == LastTokenSet.refreshTokenLifetime * 1000 + lastOp.until

\* What a getter returns of a stored token given the stored expiry: absent
\* when no expiry is stored or the expiry is before now, the token otherwise
GatedRead(tokenKey, expiresKey) ==
  IF Raw(expiresKey) = Null THEN Null
  ELSE IF parseInt(Raw(expiresKey)[1]) < now THEN Null
  ELSE Raw(tokenKey)

\* C19: an expiry equal to the current time is still valid: getAccessToken()
\* and getRefreshToken() return the stored token when expiry >= now, and
\* absent exactly when expiry < now or no expiry is stored.
C19_ExpiryBoundary ==
  /\ getAccessToken(values, now) = GatedRead(ACCESS_TOKEN_KEY, ACCESS_TOKEN_EXPIRES_KEY)
  /\ getRefreshToken(values, now) = GatedRead(REFRESH_TOKEN_KEY, REFRESH_TOKEN_EXPIRES_KEY)
  /\ lastOp.op = "setAuthTokenSet" =>
       /\ (LastAccessExpiry >= now /\ Raw(ACCESS_TOKEN_EXPIRES_KEY) # Null) =>
            getAccessToken(values, now) = <<LastTokenSet.accessToken>>
       /\ LastAccessExpiry < now => getAccessToken(values, now) = Null
       /\ LastRefreshExpiry >= now => getRefreshToken(values, now) = <<LastTokenSet.refreshToken>>
       /\ LastRefreshExpiry < now => getRefreshToken(values, now) = Null

\* C19 witness: the clock has reached the very expiry of the two stored
\* tokens, a second after they were stored, and both are returned
C19_Witness ==
  /\ lastOp.op = "setAuthTokenSet"
  /\ now > lastOp.until
  /\ LastAccessExpiry = now
  /\ LastRefreshExpiry = now
  /\ getAccessToken(values, now) = <<LastTokenSet.accessToken>>
  /\ getRefreshToken(values, now) = <<LastTokenSet.refreshToken>>

\* ------------------------------------------------------------ the read operations
ReadOperations ==
  {"getAccessToken", "getRefreshToken", "getAccessTokenExpires", "getRefreshTokenExpires",
   "hasAccessToken", "hasRefreshToken"}

\* Variant of the read operations in which the two token getters remove an
\* expired token and its expiry from the storage
Read_Purging(op, vals, t) ==
  [returned |->
     CASE op = "getAccessToken" -> getAccessToken(vals, t)
       [] op = "getRefreshToken" -> getRefreshToken(vals, t)
       [] op = "getAccessTokenExpires" -> getAccessTokenExpires(vals)
       [] op = "getRefreshTokenExpires" -> getRefreshTokenExpires(vals)
       [] op = "hasAccessToken" -> <<hasAccessToken(vals, t)>>
       [] op = "hasRefreshToken" -> <<hasRefreshToken(vals, t)>>,
   values |->
     IF op = "getAccessToken" /\ getAccessToken(vals, t) = Null
     THEN removeItem(removeItem(vals, namespace \o ACCESS_TOKEN_KEY),
                     namespace \o ACCESS_TOKEN_EXPIRES_KEY)
     ELSE IF op = "getRefreshToken" /\ getRefreshToken(vals, t) = Null
     THEN removeItem(removeItem(vals, namespace \o REFRESH_TOKEN_KEY),
                     namespace \o REFRESH_TOKEN_EXPIRES_KEY)
     ELSE vals]

\* What the read operation op returns at time t and the storage it leaves:
\* none of the six calls setItem, removeItem or clear
Read(op, vals, t) ==
  [returned |->
     CASE op = "getAccessToken" -> getAccessToken(vals, t)
       [] op = "getRefreshToken" -> getRefreshToken(vals, t)
       [] op = "getAccessTokenExpires" -> getAccessTokenExpires(vals)
       [] op = "getRefreshTokenExpires" -> getRefreshTokenExpires(vals)
       [] op = "hasAccessToken" -> <<hasAccessToken(vals, t)>>
       [] op = "hasRefreshToken" -> <<hasRefreshToken(vals, t)>>,
   values |-> vals]

\* The caller calls the read operation op
ReadCall(op) ==
  /\ values' = Read(op, values, now).values
  /\ settled' = [NotSettled EXCEPT !.what = op, !.returned = Read(op, values, now).returned]
  /\ UNCHANGED <<now, options, calls, auth, lastOp>>

\* The caller of a client without static access token and configured headers
\* stores token sets, logs out and reads, as time goes by
InitReads ==
  /\ Init
  /\ options = [accessToken |-> Null, headers |-> EmptyObject]

NextReads ==
  \/ \E token \in TokenSets : SetAuthTokenSet(token)
  \/ Logout
  \/ Tick
  \/ \E op \in ReadOperations : ReadCall(op)

SpecReads == InitReads /\ [][NextReads]_vars

\* ------------------------------------------------------------ C20
\* A read operation leaves the storage as it is
ReadWritesNothing == settled'.what \in ReadOperations => values' = values

\* The storage changes by setAuthTokenSet and logout only
OnlyWritesChange ==
  values' # values => (lastOp' # lastOp /\ lastOp'.op \in {"setAuthTokenSet", "logout"})

\* A token getter has reported the stored token as absent and the raw token
\* and expiry written by the last setAuthTokenSet are held
ExpiredStaysStored ==
  /\ (settled.what = "getAccessToken" /\ settled.returned = Null
        /\ lastOp.op = "setAuthTokenSet") =>
       /\ Raw(ACCESS_TOKEN_KEY) = <<LastTokenSet.accessToken>>
       /\ LastAccessExpiry # 0 => Raw(ACCESS_TOKEN_EXPIRES_KEY) = <<String(LastAccessExpiry)>>
  /\ (settled.what = "getRefreshToken" /\ settled.returned = Null
        /\ lastOp.op = "setAuthTokenSet") =>
       /\ Raw(REFRESH_TOKEN_KEY) = <<LastTokenSet.refreshToken>>
       /\ Raw(REFRESH_TOKEN_EXPIRES_KEY) = <<String(LastRefreshExpiry)>>

\* C20: the read operations getAccessToken, getRefreshToken,
\* getAccessTokenExpires, getRefreshTokenExpires, hasAccessToken and
\* hasRefreshToken leave the storage unchanged in every state: an expired
\* token is reported as absent, and its raw value and expiry remain stored
\* until setAuthTokenSet overwrites them or logout removes them.
C20_ReadsWriteNothing ==
  /\ [](ExpiredStaysStored)
  /\ [][ReadWritesNothing /\ OnlyWritesChange]_vars

\* C20 witness: getAccessToken() has returned absent for a token that expired
\* as time went by, and the raw token and its expiry are held
C20_Witness ==
  /\ settled.what = "getAccessToken"
  /\ settled.returned = Null
  /\ lastOp.op = "setAuthTokenSet"
  /\ PositiveLifetimes(LastTokenSet)
  /\ LastAccessExpiry < now
  /\ Raw(ACCESS_TOKEN_KEY) = <<LastTokenSet.accessToken>>
  /\ Raw(ACCESS_TOKEN_EXPIRES_KEY) = <<String(LastAccessExpiry)>>

\* ------------------------------------------------------------ concurrent calls
\* The fetch calls of the caller that may be in progress at the same time
Callers == {"c1", "c2"}

\* The token set stored before the calls are made: its access token expires
\* at once, its refresh token after a second
FirstTokenSet == AuthTokenSet("1", 0, 1)

\* A client without static access token whose user has stored FirstTokenSet a
\* millisecond ago: the access token is expired, the refresh token valid
InitConcurrent ==
  /\ options \in {o \in OptionsSpace : o.accessToken = Null}
  /\ values = setAuthTokenSet([k \in {} |-> ""], FirstTokenSet, 1000, 1000)
  /\ now = 1001
  /\ calls = [c \in Callers |-> IdleCall]
  /\ auth = IdleAuth
  /\ lastOp = [op |-> "setAuthTokenSet", by |-> "user", token |-> <<FirstTokenSet>>,
               at |-> 1000, until |-> 1000]
  /\ settled = NotSettled

\* What the server answers to the refresh requests of concurrent calls: it
\* rotates the tokens, refuses a refresh token, or cannot be reached
RotatingResponses ==
  {TransportFailure, Parsed(Body(Null, <<[message |-> "invalid token"]>>))}
  \cup {Parsed(Body(Data(<<AuthTokenSet(id, 1, 1)>>, Null), <<>>)) : id \in TokenIds}

\* The caller makes fetch calls without awaiting the one before
NextConcurrent ==
  \/ \E c \in Callers : Fetch(c, NODE_QUERY)
  \/ \E c \in Callers, response \in RotatingResponses : RefreshResponse(c, response)
  \/ \E c \in Callers : SendMain(c)
  \/ \E c \in Callers, response \in QueryResponses : MainResponse(c, response)
  \/ Tick

SpecConcurrent == InitConcurrent /\ [][NextConcurrent]_vars

\* ------------------------------------------------------------ C18
\* Every call of the caller there is something to say about
EveryCall == {calls[c] : c \in DOMAIN calls} \cup {settled.call}

\* A call made while the stored access token was expired and the stored
\* refresh token valid
ReadExpiredWithRefresh(call) ==
  /\ call.pc # "idle"
  /\ call.access.state = "expired"
  /\ call.refresh.state = "valid"

\* C18 as stated: concurrent fetch calls are not de-duplicated: each call that
\* reads the store while the access token is expired and the refresh token
\* valid issues its own refresh request with the refresh token it read; and
\* when the refresh request of a later one is refused, the refresh token
\* having been rotated by the first, that call performs logout() and sends
\* its main request without Authorization header.
C18_AsStated ==
  \A call \in EveryCall :
    /\ ReadExpiredWithRefresh(call) => OneRefreshRequest(call)
    /\ RefreshRefused(call) => GoesOnLoggedOut(call, Null)

\* C18 (amended): as C18, the main request of the refused call carrying no
\* Authorization header other than the one options.headers may configure.
C18_NoDeduplication ==
  \A call \in EveryCall :
    /\ ReadExpiredWithRefresh(call) => OneRefreshRequest(call)
    /\ RefreshRefused(call) => GoesOnLoggedOut(call, Carried(Null))

\* C18 witness: two calls have sent a refresh request with the same refresh
\* token; the first has stored the rotated token set; the second was refused,
\* has logged out, which removed that token set, and its main request is out
\* without Authorization header
C18_Witness ==
  \E a, b \in Callers :
    /\ a # b
    /\ calls[a].pc \in {"awaitHeaders", "awaitMain"}
    /\ calls[a].stored # Null
    /\ calls[b].pc = "awaitMain"
    /\ RefreshRefused(calls[b])
    /\ calls[b].loggedOut
    /\ calls[a].refreshRequests[1].variables = calls[b].refreshRequests[1].variables
    /\ Authorization(calls[b].mainRequests[1]) = Null
    /\ NothingIsStored

\* ------------------------------------------------------------ clients sharing a storage
\* The options of the clients constructed on one storage: without namespace,
\* with the empty string as namespace and with a namespace of their own; none
\* has a static access token or configured headers
SharedClients ==
  {[accessToken |-> Null, headers |-> EmptyObject, namespace |-> n] :
     n \in {Null, <<"">>, <<"myapp">>}}

\* What the storage holds for others than the clients
OtherKeys == ("theme" :> "dark") @@ (":auth:accessToken" :> "foreign")

\* The token sets the caller hands to the clients: the access token expires
\* at once, the refresh token after a second
SharedTokenSets == {AuthTokenSet(id, 0, 1) : id \in TokenIds}

\* The caller turns to the client constructed with the options o, once the
\* calls made on the client used so far have settled
Use(o) ==
  /\ o \in SharedClients
  /\ o # options
  /\ \A c \in Calls : calls[c].pc = "idle"
  /\ auth.pc = "idle"
  /\ options' = o
  /\ settled' = NotSettled
  /\ UNCHANGED <<values, now, calls, auth, lastOp>>

InitShared ==
  /\ options \in SharedClients
  /\ values = OtherKeys
  /\ now = 1000
  /\ calls = [c \in Calls |-> IdleCall]
  /\ auth = IdleAuth
  /\ lastOp = NoOp
  /\ settled = NotSettled

\* The caller stores token sets, logs out and fetches on one client at a time
NextShared ==
  \/ \E o \in SharedClients : Use(o)
  \/ \E token \in SharedTokenSets : SetAuthTokenSet(token)
  \/ Logout
  \/ Tick
  \/ \E c \in Calls : Fetch(c, NODE_QUERY)
  \/ \E c \in Calls, response \in RotatingResponses : RefreshResponse(c, response)
  \/ \E c \in Calls : SendMain(c)
  \/ \E c \in Calls, response \in QueryResponses : MainResponse(c, response)

SpecShared == InitShared /\ [][NextShared]_vars

\* ------------------------------------------------------------ C21
\* The four keys of a client whose namespace is ns
OwnKeys(ns) ==
  {ns \o k : k \in {REFRESH_TOKEN_KEY, REFRESH_TOKEN_EXPIRES_KEY,
                    ACCESS_TOKEN_KEY, ACCESS_TOKEN_EXPIRES_KEY}}

\* The key k is held with the same value before and after the step, or is
\* not held before and after
KeyKept(k) == getItem(values', k) = getItem(values, k)

\* A step changes no key but the four of the client in use
OnlyOwnKeysTouched ==
  \A k \in (DOMAIN values \cup DOMAIN values') \ OwnKeys(namespace) : KeyKept(k)

\* A step leaves the four fields of every client of another namespace alone
OtherClientsKept ==
  \A o \in SharedClients :
    Namespace(o) # namespace => \A k \in OwnKeys(Namespace(o)) : KeyKept(k)

\* The keys of others are held as they were at the start
UnrelatedKept == \A k \in DOMAIN OtherKeys : getItem(values, k) = <<OtherKeys[k]>>

\* C21: no operation of a client calls clear() on the storage: logout,
\* setAuthTokenSet and a refresh touch the four keys prefixed with the
\* namespace of the client only, so that, of two clients with distinct
\* namespaces on one storage, the operations on one leave the four stored
\* fields of the other, and every unrelated key, unchanged.
C21_OnlyOwnNamespaceTouched ==
  /\ [](UnrelatedKept)
  /\ [][OnlyOwnKeysTouched /\ OtherClientsKept]_vars

\* C21 witness: a call on the client of namespace myapp was refused its
\* refresh and has logged out, which removed the four fields of that client,
\* while the four fields of the client of the default namespace and the keys
\* of others are held
C21_Witness ==
  /\ namespace = "myapp"
  /\ \E c \in Calls :
       /\ calls[c].pc = "awaitHeaders"
       /\ calls[c].loggedOut
       /\ calls[c].refresh.state = "valid"
  /\ lastOp.op = "logout"
  /\ \A k \in OwnKeys("myapp") : getItem(values, k) = Null
  /\ \A k \in OwnKeys(DEFAULT_NAMESPACE) : getItem(values, k) # Null
  /\ UnrelatedKept

\* ------------------------------------------------------------ C22
\* The last operation that wrote the storage is the logout() of the caller
LoggedOutByCaller == lastOp.op = "logout" /\ lastOp.by = "user"

\* The step writes the storage otherwise than by a setAuthTokenSet of the
\* caller or of authenticate
WrittenByFetch == values' # values /\ lastOp'.by \notin {"user", "authenticate"}

\* C22: once the caller has called logout(), the storage stays logged out,
\* all four fields absent, until the caller next calls setAuthTokenSet or
\* authenticate, also when a fetch started before the logout has its refresh
\* request in flight: the late successful refresh response does not write a
\* token set back into the storage.
C22_LogoutStays ==
  /\ [](LoggedOutByCaller => NothingIsStored)
  /\ [][LoggedOutByCaller => ~WrittenByFetch]_vars

\* ------------------------------------------------------------ C23
\* No call of the caller is in progress
AllCompleted == \A c \in DOMAIN calls : calls[c].pc = "idle"

\* The calls have completed, the last of them a call whose refresh request
\* succeeded and which stored the token set of the response
CompletedAfterSuccess ==
  /\ AllCompleted
  /\ settled.what = "fetch"
  /\ settled.call.stored # Null

\* The storage holds the token set a successful refresh has written
HoldsRefreshedTokenSet ==
  /\ lastOp.by \in Callers
  /\ StoredFromLastTokenSet

\* The storage was emptied by the logout() of a call
WipedByCall ==
  /\ lastOp.op = "logout"
  /\ lastOp.by \in Callers
  /\ NothingIsStored

\* C23 as stated: when several fetch calls run concurrently with an expired
\* access token and a valid refresh token, at least one of their refresh
\* requests succeeds and the caller never calls logout, then after all the
\* calls have completed the storage holds the token set written by a
\* successful refresh: a token set stored by one call is never wiped by the
\* logout() of another call whose refresh was refused.
C23_AsStated == CompletedAfterSuccess => HoldsRefreshedTokenSet

\* C23 (amended): after all the calls have completed, one refresh request at
\* least having succeeded, the storage holds what the last refresh response
\* to arrive has left: the token set of the last successful refresh, or
\* nothing, when the logout() of a call whose refresh was refused came after
\* it and wiped the token set the other call had stored.
C23_LastRefreshResponseDecides ==
  /\ CompletedAfterSuccess => (HoldsRefreshedTokenSet \/ WipedByCall)
  /\ lastOp.by \in Callers =>
       IF lastOp.op = "logout" THEN NothingIsStored ELSE StoredFromLastTokenSet

\* C23 witness: two calls were made with the same expired access token and
\* valid refresh token; the refresh of one succeeded and stored a token set,
\* the refresh of the other was refused afterwards and its logout() wiped that
\* token set; both calls have completed, the successful one last, and nothing
\* is stored
C23_Witness ==
  /\ CompletedAfterSuccess
  /\ ~settled.call.loggedOut
  /\ ReadExpiredWithRefresh(settled.call)
  /\ settled.call.refresh.token = <<FirstTokenSet.refreshToken>>
  /\ WipedByCall

====
